---- MODULE Spec2Model ----
(***************************************************************************)
(* errorhelpers.expect_errors: a decorator that re-raises the declared     *)
(* error kinds and hands every other Exception to on_unexpected_error.     *)
(*                                                                         *)
(* A thread calls a chain of wrapped callables (frames[t][1] is the        *)
(* outermost wrapper, the last frame wraps the plain callable f).  Every   *)
(* frame walks through the try/except of `wrapped`.                        *)
(***************************************************************************)
EXTENDS Integers, Sequences, FiniteSets, TLC

\* ---------------------------------------------------------------- bounds
MaxErrors == 2          \* selectors per guard, single-guard runs
MaxNestedErrors == 1    \* selectors per guard, two-guard and threaded runs
NThreads == 2           \* threads calling at the same time
MaxDepth == 2           \* times one guard is stacked on the same callable

Threads == 1..NThreads

\* ------------------------------------------------------- exception kinds
Kinds ==
    {"BaseException", "Exception", "ArithmeticError", "ZeroDivisionError",
     "ValueError", "CustomError", "KeyboardInterrupt", "UnexpectedError"}

\* The base class of every kind (class statements; builtins hierarchy).
Parent(k) ==
    CASE k = "Exception"         -> "BaseException"
      [] k = "ArithmeticError"   -> "Exception"
      [] k = "ZeroDivisionError" -> "ArithmeticError"
      [] k = "ValueError"        -> "Exception"
      [] k = "CustomError"       -> "Exception"
      [] k = "KeyboardInterrupt" -> "BaseException"
      [] k = "UnexpectedError"   -> "BaseException"
      [] OTHER                   -> "BaseException"

RECURSIVE IsSubclass(_, _)
IsSubclass(k, s) ==
    IF k = s THEN TRUE
    ELSE IF k = "BaseException" THEN FALSE
    ELSE IsSubclass(Parent(k), s)

\* ------------------------------------------------------ values in flight
\* An exception object: oid tells objects apart, context is __context__.
Exc(kind, msg, oid, context) ==
    [kind |-> kind, msg |-> msg, oid |-> oid, context |-> context]

Return(v) == [tag |-> "return", value |-> v, exc |-> <<>>]
Raise(e)  == [tag |-> "raise", value |-> 0, exc |-> <<e>>]

\* A raise statement executed while `handled` is being handled: a new object
\* whose __context__ is the handled exception.
RaiseDuring(kind, msg, handled) ==
    Raise(Exc(kind, msg, handled.oid + 1, <<handled>>))

\* ----------------------------------------------------------------- hooks
\* a raise_ that keeps the message of the failure it replaces
raise_detail(err, args, kwargs) == RaiseDuring("UnexpectedError", err.msg, err)

\* UnexpectedError.raise_
raise_(err, args, kwargs) == RaiseDuring("UnexpectedError", "Unexpected error", err)

\* lambda err_, args_, kwargs_: -1
minus_one(err, args, kwargs) == Return(-1)

\* CustomError.raise_("Custom error")
raiser(err, args, kwargs) == RaiseDuring("CustomError", "Custom error", err)

\* lambda err, args, kwargs: len(args) + len(kwargs)
count_args(err, args, kwargs) == Return(Len(args) + Cardinality(kwargs))

\* a hook whose body is `raise err`: the captured object itself
reraise(err, args, kwargs) == Raise(err)

Hooks == {"raise_", "minus_one", "raiser", "count_args", "reraise"}

\* on_unexpected_error(err, args, kwargs)
on_unexpected_error(hook, err, args, kwargs) ==
    CASE hook = "raise_"     -> raise_(err, args, kwargs)
      [] hook = "minus_one"  -> minus_one(err, args, kwargs)
      [] hook = "raiser"     -> raiser(err, args, kwargs)
      [] hook = "count_args" -> count_args(err, args, kwargs)
      [] hook = "reraise"    -> reraise(err, args, kwargs)

\* ---------------------------------------------------------------- guards
\* expect_errors(*errors, on_unexpected_error=UnexpectedError.raise_)
expect_errors(errors, hook) == [errors |-> errors, hook |-> hook]

ErrorSets(n) == {E \in SUBSET Kinds : Cardinality(E) <= n}
GuardsUpTo(n) == {expect_errors(E, h) : E \in ErrorSets(n), h \in Hooks}

\* `except errors:` an object matches when its class is a subclass of a member
Matches(e, errors) == \E s \in errors : IsSubclass(e.kind, s)

\* `except Exception as err:`
IsException(e) == IsSubclass(e.kind, "Exception")

\* the two except clauses in the other order
ExceptClauseSwapped(e, errors) ==
    IF IsSubclass(e.kind, "Exception") THEN "Exception"
    ELSE IF \E s \in errors : IsSubclass(e.kind, s) THEN "errors"
    ELSE "none"

\* `except BaseException as err:` in place of `except Exception as err:`
ExceptClauseBase(e, errors) ==
    IF \E s \in errors : IsSubclass(e.kind, s) THEN "errors" ELSE "Exception"

\* The except clause of `wrapped` that handles e: clauses are tried in order.
ExceptClause(e, errors) ==
    IF \E s \in errors : IsSubclass(e.kind, s) THEN "errors"
    ELSE IF IsSubclass(e.kind, "Exception") THEN "Exception"
    ELSE "none"

\* ---------------------------------------------------------------- inputs
\* sensitive_transaction("4", "0") and sensitive_transaction("a", y="b")
Calls ==
    {[args |-> <<"4", "0">>, kwargs |-> {}],
     [args |-> <<"a">>, kwargs |-> {<<"y", "b">>}]}

Values == {2, 7}
RaisedKinds ==
    {"ZeroDivisionError", "ValueError", "CustomError", "KeyboardInterrupt",
     "UnexpectedError"}
Msgs == {"division by zero"}

\* ----------------------------------------------------------------- state
VARIABLES
    guards,     \* the guard instances: a sequence of [errors, hook]
    frames,     \* frames[t]: the wrappers thread t calls, outermost first
    top,        \* top[t]: how many frames of t are on the call stack
    call,       \* call[t]: <<>> or the arguments of t's call
    hookCalls   \* hookCalls[t]: the hook invocations t made, in order

vars == <<guards, frames, top, call, hookCalls>>

Idle(g) == [guard |-> g, pc |-> "IDLE", region |-> <<>>, err |-> <<>>, out |-> <<>>]

Terminal ==
    {"COMPLETED", "PROPAGATING_EXPECTED", "PROPAGATING_UNCAUGHT", "CONVERTED",
     "PROPAGATING_CONVERTED"}

\* ------------------------------------------------------------------ Init
InitRest ==
    /\ top = [t \in Threads |-> 0]
    /\ call = [t \in Threads |-> <<>>]
    /\ hookCalls = [t \in Threads |-> <<>>]

\* one guard, one wrapper, one thread
Init ==
    /\ \E g \in GuardsUpTo(MaxErrors) : guards = <<g>>
    /\ frames = [t \in Threads |-> IF t = 1 THEN <<Idle(1)>> ELSE <<>>]
    /\ InitRest

\* B(A(f)): frame 1 is the outer guard B = guards[2], frame 2 the inner A
InitNested ==
    /\ \E a \in GuardsUpTo(MaxNestedErrors), b \in GuardsUpTo(MaxNestedErrors) :
          guards = <<a, b>>
    /\ frames = [t \in Threads |-> IF t = 1 THEN <<Idle(2), Idle(1)>> ELSE <<>>]
    /\ InitRest

\* thread 1 calls G(f), thread 2 calls G(G(f)) (or a deeper stack of G)
InitTwice ==
    /\ \E g \in GuardsUpTo(MaxNestedErrors) : guards = <<g>>
    /\ \E d \in 2..MaxDepth :
          frames = [t \in Threads |->
                      IF t = 1 THEN <<Idle(1)>>
                      ELSE IF t = 2 THEN [i \in 1..d |-> Idle(1)]
                      ELSE <<>>]
    /\ InitRest

\* every thread calls the same wrapped callable: the guard of the docstring,
\* expect_errors(ZeroDivisionError, on_unexpected_error=h)
InitShared ==
    /\ \E h \in Hooks : guards = <<expect_errors({"ZeroDivisionError"}, h)>>
    /\ frames = [t \in Threads |-> <<Idle(1)>>]
    /\ InitRest

\* --------------------------------------------------------------- actions
Frame(t) == frames[t][top[t]]

\* every wrapper of a stack reading the closure of the innermost one
GuardOfInnermost(t) == guards[frames[t][Len(frames[t])].guard]

\* errors and on_unexpected_error as the closure of the running wrapper holds them
Guard(t) == guards[Frame(t).guard]

\* The frame on top of t's stack leaves with outcome o; its caller, when it
\* is a wrapper too, gets o as the outcome of func(*args, **kwargs).
Leave(t, state, o) ==
    LET i == top[t] IN
    /\ frames' = [frames EXCEPT ![t] =
          [j \in 1..Len(frames[t]) |->
              IF j = i THEN [frames[t][j] EXCEPT !.pc = state, !.out = <<o>>]
              ELSE IF j = i - 1 THEN [frames[t][j] EXCEPT !.region = <<o>>]
              ELSE frames[t][j]]]
    /\ top' = [top EXCEPT ![t] = i - 1]

\* the caller calls the outermost wrapped(*args, **kwargs)
Invoke(t, c) ==
    /\ Len(frames[t]) >= 1
    /\ top[t] = 0
    /\ frames[t][1].pc = "IDLE"
    /\ call' = [call EXCEPT ![t] = <<c>>]
    /\ frames' = [frames EXCEPT ![t][1].pc = "RUNNING"]
    /\ top' = [top EXCEPT ![t] = 1]
    /\ UNCHANGED <<guards, hookCalls>>

\* func(*args, **kwargs) where func is itself a wrapped callable
CallInner(t) ==
    /\ top[t] >= 1
    /\ top[t] < Len(frames[t])
    /\ Frame(t).pc = "RUNNING"
    /\ frames[t][top[t] + 1].pc = "IDLE"
    /\ frames' = [frames EXCEPT ![t][top[t] + 1].pc = "RUNNING"]
    /\ top' = [top EXCEPT ![t] = top[t] + 1]
    /\ UNCHANGED <<guards, call, hookCalls>>

AtFunc(t) ==
    /\ top[t] >= 1
    /\ top[t] = Len(frames[t])
    /\ Frame(t).pc = "RUNNING"
    /\ Frame(t).region = <<>>

\* func(*args, **kwargs) where func is the plain callable: it returns v
FuncReturns(t, v) ==
    /\ AtFunc(t)
    /\ frames' = [frames EXCEPT ![t][top[t]].region = <<Return(v)>>]
    /\ UNCHANGED <<guards, top, call, hookCalls>>

\* ... or it raises a fresh exception of kind k
FuncRaises(t, k, m) ==
    /\ AtFunc(t)
    /\ frames' = [frames EXCEPT ![t][top[t]].region = <<Raise(Exc(k, m, 1, <<>>))>>]
    /\ UNCHANGED <<guards, top, call, hookCalls>>

Classifying(t) ==
    /\ top[t] >= 1
    /\ Frame(t).pc = "RUNNING"
    /\ Frame(t).region # <<>>

\* func(*args, **kwargs) without the `return`
wrappedDropsResult(t) ==
    /\ Classifying(t)
    /\ Frame(t).region[1].tag = "return"
    /\ Leave(t, "COMPLETED", Return(0))
    /\ UNCHANGED <<guards, call, hookCalls>>

\* return func(*args, **kwargs)
ReturnResult(t) ==
    /\ Classifying(t)
    /\ Frame(t).region[1].tag = "return"
    /\ Leave(t, "COMPLETED", Frame(t).region[1])
    /\ UNCHANGED <<guards, call, hookCalls>>

\* `raise type(err)(str(err))` in place of the bare `raise`
ReraiseExpectedAsCopy(t) ==
    /\ Classifying(t)
    /\ Frame(t).region[1].tag = "raise"
    /\ ExceptClause(Frame(t).region[1].exc[1], Guard(t).errors) = "errors"
    /\ Leave(t, "PROPAGATING_EXPECTED",
             RaiseDuring(Frame(t).region[1].exc[1].kind, Frame(t).region[1].exc[1].msg,
                         Frame(t).region[1].exc[1]))
    /\ UNCHANGED <<guards, call, hookCalls>>

\* except errors: raise
ReraiseExpected(t) ==
    /\ Classifying(t)
    /\ Frame(t).region[1].tag = "raise"
    /\ ExceptClause(Frame(t).region[1].exc[1], Guard(t).errors) = "errors"
    /\ Leave(t, "PROPAGATING_EXPECTED", Frame(t).region[1])
    /\ UNCHANGED <<guards, call, hookCalls>>

\* no except clause matches: the exception leaves wrapped as it is
PassUncaught(t) ==
    /\ Classifying(t)
    /\ Frame(t).region[1].tag = "raise"
    /\ ExceptClause(Frame(t).region[1].exc[1], Guard(t).errors) = "none"
    /\ Leave(t, "PROPAGATING_UNCAUGHT", Frame(t).region[1])
    /\ UNCHANGED <<guards, call, hookCalls>>

\* on_unexpected_error(err, (), {}) in place of (err, args, kwargs)
CatchUnexpectedNoArgs(t) ==
    /\ Classifying(t)
    /\ Frame(t).region[1].tag = "raise"
    /\ ExceptClause(Frame(t).region[1].exc[1], Guard(t).errors) = "Exception"
    /\ frames' = [frames EXCEPT ![t][top[t]].pc = "CONVERTING",
                                ![t][top[t]].err = Frame(t).region[1].exc]
    /\ hookCalls' = [hookCalls EXCEPT ![t] = Append(@,
          [frame |-> top[t], err |-> Frame(t).region[1].exc[1],
           args |-> <<>>, kwargs |-> {}])]
    /\ UNCHANGED <<guards, top, call>>

\* except Exception as err: on_unexpected_error(err, args, kwargs) is called
CatchUnexpected(t) ==
    /\ Classifying(t)
    /\ Frame(t).region[1].tag = "raise"
    /\ ExceptClause(Frame(t).region[1].exc[1], Guard(t).errors) = "Exception"
    /\ frames' = [frames EXCEPT ![t][top[t]].pc = "CONVERTING",
                                ![t][top[t]].err = Frame(t).region[1].exc]
    /\ hookCalls' = [hookCalls EXCEPT ![t] = Append(@,
          [frame |-> top[t], err |-> Frame(t).region[1].exc[1],
           args |-> call[t][1].args, kwargs |-> call[t][1].kwargs])]
    /\ UNCHANGED <<guards, top, call>>

\* err, args and kwargs kept in one cell shared by all calls of the guard:
\* the hook reads what the earliest thread still converting has stored
HookResultOfSharedCell(t) ==
    LET conv == {u \in Threads : top[u] >= 1 /\ frames[u][top[u]].pc = "CONVERTING"}
        u == CHOOSE u \in conv : \A w \in conv : u <= w
        c == hookCalls[u][Len(hookCalls[u])]
    IN  on_unexpected_error(Guard(t).hook, c.err, c.args, c.kwargs)

\* what the hook call in progress in t's top frame produces
HookResult(t) ==
    LET c == hookCalls[t][Len(hookCalls[t])] IN
    on_unexpected_error(Guard(t).hook, c.err, c.args, c.kwargs)

\* the hook returns: return on_unexpected_error(...)
HookReturns(t) ==
    /\ top[t] >= 1
    /\ Frame(t).pc = "CONVERTING"
    /\ HookResult(t).tag = "return"
    /\ Leave(t, "CONVERTED", HookResult(t))
    /\ UNCHANGED <<guards, call, hookCalls>>

\* the hook called inside the try block: what it raises meets `except errors`
HookRaisesInsideTry(t) ==
    /\ top[t] >= 1
    /\ Frame(t).pc = "CONVERTING"
    /\ HookResult(t).tag = "raise"
    /\ Leave(t, IF Matches(HookResult(t).exc[1], Guard(t).errors)
                 THEN "PROPAGATING_EXPECTED" ELSE "PROPAGATING_CONVERTED",
             HookResult(t))
    /\ UNCHANGED <<guards, call, hookCalls>>

\* the hook raises: the exception leaves the except block, and wrapped
HookRaises(t) ==
    /\ top[t] >= 1
    /\ Frame(t).pc = "CONVERTING"
    /\ HookResult(t).tag = "raise"
    /\ Leave(t, "PROPAGATING_CONVERTED", HookResult(t))
    /\ UNCHANGED <<guards, call, hookCalls>>

Step(t) ==
    \/ \E c \in Calls : Invoke(t, c)
    \/ \E v \in Values : FuncReturns(t, v)
    \/ \E k \in RaisedKinds, m \in Msgs : FuncRaises(t, k, m)
    \/ ReturnResult(t)
    \/ ReraiseExpected(t)
    \/ PassUncaught(t)
    \/ CatchUnexpected(t)
    \/ HookReturns(t)
    \/ HookRaises(t)

Next == \E t \in Threads : Step(t)

NextNested == \E t \in Threads : Step(t) \/ CallInner(t)

Spec == Init /\ [][Next]_vars
SpecNested == InitNested /\ [][NextNested]_vars
SpecTwice == InitTwice /\ [][NextNested]_vars
SpecShared == InitShared /\ [][Next]_vars

\* ------------------------------------------------------------ properties
Frames == {f \in Threads \X (1..(MaxDepth + 2)) : f[2] <= Len(frames[f[1]])}

F(f) == frames[f[1]][f[2]]
G(f) == guards[F(f).guard]
CallsOf(f) == SelectSeq(hookCalls[f[1]], LAMBDA c : c.frame = f[2])
Done(f) == F(f).out # <<>>
Returned(f) == F(f).region # <<>> /\ F(f).region[1].tag = "return"
Raised(f) == F(f).region # <<>> /\ F(f).region[1].tag = "raise"
E(f) == F(f).region[1].exc[1]
Out(f) == F(f).out[1]
Args(f) == call[f[1]][1].args
KwArgs(f) == call[f[1]][1].kwargs
TheCall(f) == [frame |-> f[2], err |-> E(f), args |-> Args(f), kwargs |-> KwArgs(f)]

\* C1: when func returns, wrapped returns exactly that result and the hook is
\* not invoked, whatever the guard.
C1_ResultReturnedUnchanged ==
    \A f \in Frames :
        Returned(f) =>
            /\ CallsOf(f) = <<>>
            /\ F(f).pc \in {"RUNNING", "COMPLETED"}
            /\ Done(f) => F(f).out = F(f).region

C1_Witness ==
    \E f \in Frames :
        /\ Returned(f) /\ Done(f)
        /\ F(f).pc = "COMPLETED"
        /\ G(f).hook = "raiser"
        /\ G(f).errors # {}

\* C2: a failure whose kind is a selector or a subclass of one leaves wrapped
\* as the identical object, and the hook is not invoked, whatever the hook.
C2_ExpectedReraisedUnchanged ==
    \A f \in Frames :
        (Raised(f) /\ Matches(E(f), G(f).errors)) =>
            /\ CallsOf(f) = <<>>
            /\ F(f).pc \in {"RUNNING", "PROPAGATING_EXPECTED"}
            /\ Done(f) => F(f).out = F(f).region

C2_Witness ==
    \E f \in Frames :
        /\ Raised(f) /\ Done(f)
        /\ Matches(E(f), G(f).errors)
        /\ E(f).kind \notin G(f).errors
        /\ G(f).hook = "minus_one"
        /\ Out(f) = Raise(E(f))

\* C3 as stated: every failure that matches no selector becomes, under the
\* default hook, UnexpectedError("Unexpected error") with nothing of the
\* original failure reachable from it.
C3_Original ==
    \A f \in Frames :
        (Raised(f) /\ Done(f) /\ ~Matches(E(f), G(f).errors) /\ G(f).hook = "raise_") =>
            /\ Out(f).tag = "raise"
            /\ Out(f).exc[1].kind = "UnexpectedError"
            /\ Out(f).exc[1].msg = "Unexpected error"
            /\ Out(f).exc[1].context = <<>>

\* C3 amended: every Exception that matches no selector becomes, under the
\* default hook, a new UnexpectedError whose message is exactly "Unexpected
\* error"; the original failure is its __context__ and nothing else of it.
C3_DefaultHookRaisesUnexpectedError ==
    \A f \in Frames :
        (/\ Raised(f) /\ Done(f)
         /\ ~Matches(E(f), G(f).errors)
         /\ IsException(E(f))
         /\ G(f).hook = "raise_") =>
            /\ Out(f).tag = "raise"
            /\ Out(f).exc[1].kind = "UnexpectedError"
            /\ Out(f).exc[1].msg = "Unexpected error"
            /\ Out(f).exc[1].oid # E(f).oid
            /\ Out(f).exc[1].context = <<E(f)>>

C3_Witness ==
    \E f \in Frames :
        /\ Raised(f) /\ Done(f)
        /\ G(f).hook = "raise_"
        /\ G(f).errors = {"ZeroDivisionError"}
        /\ E(f).kind = "ValueError"
        /\ Out(f).exc[1].kind = "UnexpectedError"

\* C4 as stated: every failure that matches no selector is handed to a custom
\* hook exactly once, with the call's arguments, and the hook's outcome is the
\* outcome of the call.
C4_Original ==
    \A f \in Frames :
        (Raised(f) /\ Done(f) /\ ~Matches(E(f), G(f).errors) /\ G(f).hook # "raise_") =>
            /\ CallsOf(f) = <<TheCall(f)>>
            /\ Out(f) = on_unexpected_error(G(f).hook, E(f), Args(f), KwArgs(f))

\* C4 amended: every Exception that matches no selector is handed to a custom
\* hook exactly once, with the call's arguments; what the hook returns is
\* returned, what it raises is raised, and it is not classified again.
C4_CustomHookDecidesOutcome ==
    \A f \in Frames :
        (/\ Raised(f)
         /\ ~Matches(E(f), G(f).errors)
         /\ IsException(E(f))
         /\ G(f).hook # "raise_") =>
            /\ Len(CallsOf(f)) <= 1
            /\ Done(f) =>
                /\ CallsOf(f) = <<TheCall(f)>>
                /\ Out(f) = on_unexpected_error(G(f).hook, E(f), Args(f), KwArgs(f))
                /\ F(f).pc = (IF Out(f).tag = "return" THEN "CONVERTED"
                              ELSE "PROPAGATING_CONVERTED")

C4_Witness ==
    \E f \in Frames :
        /\ Raised(f) /\ Done(f)
        /\ G(f).hook = "raiser"
        /\ F(f).pc = "PROPAGATING_CONVERTED"
        /\ ~Matches(Out(f).exc[1], G(f).errors)
        /\ IsException(Out(f).exc[1])
        /\ Len(CallsOf(f)) = 1
        /\ KwArgs(f) # {}

\* C5 as stated: a failure either matches a selector and is re-raised
\* unchanged, or is passed to the hook.
C5_Original ==
    \A f \in Frames :
        (Raised(f) /\ Done(f)) =>
            \/ Matches(E(f), G(f).errors) /\ F(f).out = F(f).region
            \/ CallsOf(f) # <<>>

\* C5 amended: a failure that matches a selector is re-raised unchanged, any
\* other Exception is passed to the hook, and a failure that is neither (a
\* control kind outside the selectors) leaves the guard unchanged with no
\* hook call.
C5_ClassificationTotal ==
    \A f \in Frames :
        (Raised(f) /\ Done(f)) =>
            \/ /\ Matches(E(f), G(f).errors)
               /\ F(f).out = F(f).region
               /\ CallsOf(f) = <<>>
            \/ /\ ~Matches(E(f), G(f).errors)
               /\ IsException(E(f))
               /\ Len(CallsOf(f)) = 1
               /\ CallsOf(f)[1].err = E(f)
            \/ /\ ~Matches(E(f), G(f).errors)
               /\ ~IsException(E(f))
               /\ F(f).out = F(f).region
               /\ CallsOf(f) = <<>>

C5_Witness ==
    \E f \in Frames :
        /\ Raised(f) /\ Done(f)
        /\ E(f).kind = "KeyboardInterrupt"
        /\ G(f).errors = {"ZeroDivisionError", "ValueError"}
        /\ F(f).pc = "PROPAGATING_UNCAUGHT"

\* C7: a failure that is a BaseException but not an Exception is never passed
\* to the hook and leaves the guard as the identical object.
C7_ControlKindNeverConverted ==
    \A f \in Frames :
        (Raised(f) /\ ~IsException(E(f))) =>
            /\ CallsOf(f) = <<>>
            /\ F(f).err = <<>>
            /\ F(f).pc \in {"RUNNING", "PROPAGATING_EXPECTED", "PROPAGATING_UNCAUGHT"}
            /\ Done(f) => F(f).out = F(f).region

C7_Witness ==
    \E f \in Frames :
        /\ Raised(f) /\ Done(f)
        /\ E(f).kind = "KeyboardInterrupt"
        /\ ~Matches(E(f), G(f).errors)
        /\ G(f).hook = "minus_one"
        /\ Out(f) = Raise(E(f))

Finished(t) == Len(frames[t]) >= 1 /\ top[t] = 0 /\ frames[t][1].out # <<>>

\* what the plain callable f did in t's call
FOut(t) == frames[t][Len(frames[t])].region

\* wrapped(*args, **kwargs) as a function of the guard, of what func did and of
\* the arguments
wrapped(g, r, c) ==
    IF r.tag = "return" THEN r
    ELSE IF Matches(r.exc[1], g.errors) THEN r
    ELSE IF IsException(r.exc[1]) THEN on_unexpected_error(g.hook, r.exc[1], c.args, c.kwargs)
    ELSE r

\* C8: no step of any thread changes the guard, and what a call produces is a
\* function of its own arguments and of what its own func did, whatever the
\* other threads calling the same wrapped callable do meanwhile.
C8_GuardStatelessAcrossCalls ==
    /\ [][guards' = guards]_vars
    /\ [](\A t \in Threads :
            Finished(t) =>
                frames[t][1].out[1] = wrapped(guards[1], FOut(t)[1], call[t][1]))

C8_Witness ==
    /\ \A t \in Threads : Finished(t)
    /\ hookCalls[1] # <<>>
    /\ hookCalls[2] # <<>>
    /\ hookCalls[1][1].err # hookCalls[2][1].err
    /\ call[1] # call[2]
    /\ guards[1].hook = "reraise"

StepsAlong(edges) ==
    \A t \in Threads : \A i \in 1..Len(frames[t]) :
        frames'[t][i].pc # frames[t][i].pc =>
            <<frames[t][i].pc, frames'[t][i].pc>> \in edges

SpecEdges ==
    {<<"IDLE", "RUNNING">>, <<"RUNNING", "COMPLETED">>,
     <<"RUNNING", "PROPAGATING_EXPECTED">>, <<"RUNNING", "CONVERTING">>,
     <<"CONVERTING", "CONVERTED">>, <<"CONVERTING", "PROPAGATING_CONVERTED">>}

CodeEdges == SpecEdges \cup {<<"RUNNING", "PROPAGATING_UNCAUGHT">>}

\* C9 as stated: the only transitions are IDLE -> RUNNING -> {COMPLETED,
\* PROPAGATING_EXPECTED, CONVERTING} and CONVERTING -> {CONVERTED,
\* PROPAGATING_CONVERTED}, and a finished invocation is in one of the four
\* terminal states.
C9_Original ==
    /\ [][StepsAlong(SpecEdges)]_vars
    /\ [](\A f \in Frames :
            Done(f) => F(f).pc \in {"COMPLETED", "PROPAGATING_EXPECTED", "CONVERTED",
                                    "PROPAGATING_CONVERTED"})

\* C9 amended: the transitions are those of the state machine plus RUNNING ->
\* PROPAGATING_UNCAUGHT, a fifth terminal state taken by a control-kind failure
\* that matches no selector; CONVERTING is entered at most once, from RUNNING;
\* terminal states have no successor; a finished invocation is in exactly one
\* of the five terminal states.
C9_StateMachineWithUncaught ==
    /\ [][StepsAlong(CodeEdges)]_vars
    /\ [](\A f \in Frames :
            /\ Done(f) <=> F(f).pc \in Terminal
            /\ Len(CallsOf(f)) <= 1
            /\ Len(CallsOf(f)) = 1 <=>
                  F(f).pc \in {"CONVERTING", "CONVERTED", "PROPAGATING_CONVERTED"})

C9_Witness ==
    \E f \in Frames :
        /\ Done(f)
        /\ F(f).pc = "PROPAGATING_UNCAUGHT"
        /\ G(f).hook = "count_args"
        /\ E(f).kind = "UnexpectedError"

Outer == <<1, 1>>
Inner == <<1, 2>>
LeftInner == Out(Inner).exc[1]

\* C10 as stated: every failure that leaves the inner guard A is re-raised
\* unchanged by the outer guard B when it matches B's selectors, and is passed
\* to B's hook otherwise, whose outcome is the outcome of the nested call.
C10_Original ==
    (Done(Inner) /\ Out(Inner).tag = "raise" /\ Done(Outer)) =>
        IF Matches(LeftInner, guards[2].errors)
        THEN Out(Outer) = Out(Inner) /\ CallsOf(Outer) = <<>>
        ELSE /\ CallsOf(Outer) = <<[frame |-> 1, err |-> LeftInner,
                                    args |-> Args(Outer), kwargs |-> KwArgs(Outer)]>>
             /\ Out(Outer) = on_unexpected_error(guards[2].hook, LeftInner,
                                                 Args(Outer), KwArgs(Outer))

\* C10 amended: every failure that leaves the inner guard A is classified by
\* the outer guard B under B's rule alone: re-raised unchanged when it matches
\* B's selectors; otherwise passed to B's hook when it is an Exception;
\* otherwise (a control kind, such as the default hook's UnexpectedError) it
\* leaves B unchanged and B's hook is not invoked.
C10_NestedGuardsClassifyIndependently ==
    (Done(Inner) /\ Out(Inner).tag = "raise" /\ Done(Outer)) =>
        IF Matches(LeftInner, guards[2].errors) \/ ~IsException(LeftInner)
        THEN Out(Outer) = Out(Inner) /\ CallsOf(Outer) = <<>>
        ELSE /\ CallsOf(Outer) = <<[frame |-> 1, err |-> LeftInner,
                                    args |-> Args(Outer), kwargs |-> KwArgs(Outer)]>>
             /\ Out(Outer) = on_unexpected_error(guards[2].hook, LeftInner,
                                                 Args(Outer), KwArgs(Outer))

C10_Witness ==
    /\ Done(Inner) /\ Done(Outer)
    /\ F(Inner).pc = "PROPAGATING_CONVERTED"
    /\ guards[1] = expect_errors({"ZeroDivisionError"}, "raise_")
    /\ guards[2] = expect_errors({"ValueError"}, "minus_one")
    /\ LeftInner.kind = "UnexpectedError"
    /\ F(Outer).pc = "PROPAGATING_UNCAUGHT"

Trace(t) ==
    [i \in 1..Len(hookCalls[t]) |->
        [err |-> hookCalls[t][i].err, args |-> hookCalls[t][i].args,
         kwargs |-> hookCalls[t][i].kwargs]]

SameInputs == call[1] = call[2] /\ FOut(1) = FOut(2)

\* C6 as stated: G(G(f)) called once and G(f) called once give the same
\* returned value or raised failure and the same hook invocations.
C6_Original ==
    (Finished(1) /\ Finished(2) /\ SameInputs) =>
        /\ frames[2][1].out = frames[1][1].out
        /\ Trace(2) = Trace(1)

\* the hook of G(f) raised an Exception that G's selectors do not match
HookRaisedUnexpected ==
    /\ frames[1][1].pc = "PROPAGATING_CONVERTED"
    /\ IsException(Out(Outer).exc[1])
    /\ ~Matches(Out(Outer).exc[1], guards[1].errors)

\* C6 amended: G(G(f)) and G(f) give the same outcome and the same hook
\* invocations whenever G's hook, if invoked, returns a value or raises a
\* failure that G's selectors match or that is a control kind (as the default
\* hook's UnexpectedError is).
C6_IdempotentUnlessHookRaisesUnexpected ==
    (Finished(1) /\ Finished(2) /\ SameInputs /\ ~HookRaisedUnexpected) =>
        /\ frames[2][1].out = frames[1][1].out
        /\ Trace(2) = Trace(1)

C6_Witness ==
    /\ Finished(1) /\ Finished(2) /\ SameInputs
    /\ guards[1] = expect_errors({"CustomError"}, "raiser")
    /\ frames[1][1].pc = "PROPAGATING_CONVERTED"
    /\ frames[2][1].pc = "PROPAGATING_EXPECTED"
    /\ Len(hookCalls[2]) = 1

====
